---- MODULE Spec2Model ----
(***************************************************************************)
(* Model of example/language_model/train_mlm.py: the resumable training    *)
(* loop of TransformeLMTrainer (build_dataloaders, train, evaluate, save). *)
(***************************************************************************)
EXTENDS Integers, Sequences, FiniteSets, TLC

(***************************************************************************)
(* Bounds of the model.                                                    *)
(***************************************************************************)
MaxDatasetLen == 3      \* dataset sizes 0..MaxDatasetLen in the training runs
MaxEpochs == 2          \* epochs argument of train: 0..MaxEpochs
MaxCkptSteps == 3       \* ckpt_steps argument of train: 1..MaxCkptSteps
MaxLogSteps == 2        \* log_steps argument of train: 1..MaxLogSteps
MaxGpus == 2            \* torch.cuda.device_count(): 0..MaxGpus
MaxInterrupts == 1      \* process kills followed by a restart of the script
MaxSplitLen == 50       \* dataset sizes 0..MaxSplitLen for build_dataloaders alone
MaxRows == 2            \* rows of a labels tensor
MaxCols == 2            \* columns of a labels tensor

(***************************************************************************)
(* Program constants.                                                      *)
(***************************************************************************)
IgnoreLabel == 0 - 100  \* the sentinel of non-masked positions
MantBits == 53          \* significand width of a Python float

VARIABLES
    \* arguments and environment, fixed for the life of the files
    dataset_len,          \* len(self.dataset)
    train_test_split,     \* <<n, d>>: the decimal literal n/d
    train_shuffle, eval_shuffle,
    train_batch_size,     \* also eval_batch_size (line 60)
    epochs, log_steps, ckpt_steps,
    n_gpu,
    \* results of build_dataloaders
    train_len, eval_len,
    \* files
    ckpt_file,            \* {checkpoint_path}/{model_name}.pth
    log_file,             \* {log_dir}/{model_name}-train-log.json
    eval_file,            \* {log_dir}/{model_name}_eval_results.txt
    \* the process
    pc,
    model,                \* [params, wrapped, training]
    optimizer,            \* optimizer state: number of updates folded in
    scheduler,            \* number of scheduler steps
    losses, global_steps, local_steps, step_loss,
    start_epoch, start_step, epoch, step,
    eval_loss, eval_steps,
    \* the masked selection of one batch
    labels, selected,
    \* history
    interrupts,           \* kills so far
    resumed,              \* the checkpoint found by the running call of train
    saves,                \* the saves of the running call of train, in order
    trained,              \* the batches trained by the running call of train
    flushed,              \* the in-memory loss history at the latest flush
    logged,               \* the log events of the running call of train, in order
    evals,                \* the calls of evaluate made by the running call of train
    skipped,              \* the batches skipped by the running call of train
    ops,                  \* the operations of the latest trained batch, in order
    lr_used,              \* the schedule position of each optimizer update of the call
    eval_calls,           \* the calls of evaluate on this trainer
    last_save             \* the latest save: "none", "loop" (flush not yet written), "flushed", "final"

vars == <<dataset_len, train_test_split, train_shuffle, eval_shuffle,
          train_batch_size, epochs, log_steps, ckpt_steps, n_gpu,
          train_len, eval_len, ckpt_file, log_file, eval_file,
          pc, model, optimizer, scheduler,
          losses, global_steps, local_steps, step_loss,
          start_epoch, start_step, epoch, step, eval_loss, eval_steps,
          labels, selected,
          interrupts, resumed, saves, trained, flushed, last_save,
          logged, evals, skipped, ops, lr_used, eval_calls>>

args == <<dataset_len, train_test_split, train_shuffle, eval_shuffle,
          train_batch_size, epochs, log_steps, ckpt_steps, n_gpu>>

\* a file is <<>> while absent and <<its content>> once written
NoFile == <<>>

File(content) == <<content>>

Content(file) == file[1]

(***************************************************************************)
(* Python float arithmetic of line 70.  A float is a significand of        *)
(* MantBits = 18 + 18 + 17 bits, kept in three limbs a, b, c, and a binary *)
(* exponent: its value is (a*2^35 + b*2^17 + c) * 2^-(z + MantBits).       *)
(***************************************************************************)
\* bits of the limbs a and b
HiBits == (MantBits + 1) \div 3

\* bits of the limb c
LoBits == MantBits - 2 * HiBits

\* the number of bits of x
BitLen(x) == CHOOSE k \in 0..30 : x < 2 ^ k /\ (k = 0 \/ 2 ^ (k - 1) <= x)

\* carry the overflow of c into b and of b into a
Normalise(a, b, c, z) ==
    LET b1 == b + c \div (2 ^ LoBits)
    IN [a |-> a + b1 \div (2 ^ HiBits), b |-> b1 % (2 ^ HiBits),
        c |-> c % (2 ^ LoBits), z |-> z]

\* round to nearest, ties to even, to MantBits significant bits
RoundHalfEven(f) ==
    LET drop == BitLen(f.a) - HiBits
        unit == 2 ^ drop
        rest == f.c % unit
        kept == f.c \div unit
        up == drop > 0 /\ (2 * rest > unit \/ (2 * rest = unit /\ kept % 2 = 1))
    IN IF drop <= 0 THEN f
       ELSE Normalise(f.a, f.b, (kept + (IF up THEN 1 ELSE 0)) * unit, f.z)

\* the float a decimal literal n/d, 0 <= n <= d, is read as
ToFloat(n, d) ==
    IF n = 0 THEN [a |-> 0, b |-> 0, c |-> 0, z |-> 0]
    ELSE IF n = d THEN [a |-> 2 ^ (HiBits - 1), b |-> 0, c |-> 0, z |-> 0 - 1]
    ELSE LET z == CHOOSE k \in 0..30 : 2 * n * (2 ^ k) >= d /\ n * (2 ^ k) < d
             r0 == n * (2 ^ z)
             a == (r0 * (2 ^ HiBits)) \div d
             r1 == (r0 * (2 ^ HiBits)) % d
             b == (r1 * (2 ^ HiBits)) \div d
             r2 == (r1 * (2 ^ HiBits)) % d
             c2 == (r2 * (2 ^ HiBits)) \div d   \* LoBits bits and the half bit
             r3 == (r2 * (2 ^ HiBits)) % d
             up == c2 % 2 = 1 /\ (r3 # 0 \/ (c2 \div 2) % 2 = 1)
         IN Normalise(a, b, c2 \div 2 + (IF up THEN 1 ELSE 0), z)

\* int * float: the exact product, rounded to a float
FloatMul(t, f) == RoundHalfEven(Normalise(f.a * t, f.b * t, f.c * t, f.z))

\* round() in place of int(): the nearest integer
IntOfFloatRounded(f) ==
    (f.a + 2 ^ (f.z + HiBits - 1)) \div (2 ^ (f.z + HiBits))

\* int(float) of a non-negative float below 2^HiBits: the integer part
IntOfFloat(f) == f.a \div (2 ^ (f.z + HiBits))

(***************************************************************************)
(* build_dataloaders (lines 68-76).                                        *)
(***************************************************************************)
\* line 70: int(dataset_len * train_test_split)
EvalLen(t, r) == IntOfFloat(FloatMul(t, ToFloat(r[1], r[2])))

\* line 71
TrainLen(t, ev) == t - ev

\* len() of a DataLoader over n examples (lines 73-74, drop_last left False)
LoaderLen(n, bs) == (n + bs - 1) \div bs

\* len(train_dataloader)
L == LoaderLen(train_len, train_batch_size)

\* len(eval_dataloader)
EL == LoaderLen(eval_len, train_batch_size)

(***************************************************************************)
(* Helpers of train, evaluate and save.                                    *)
(***************************************************************************)
\* model.state_dict(): nn.DataParallel prefixes every key with "module."
StateDict(m) == [params |-> m.params, prefix |-> m.wrapped]

\* load_state_dict is strict: the keys must be the model's own
KeysMatch(m, sd) == sd.prefix = m.wrapped

\* a save that leaves the loss history out
CheckpointNoLosses(e, m, opt, ls, ts) ==
    [epoch |-> e, model_state_dict |-> StateDict(m),
     optimizer_state_dict |-> opt, losses |-> <<>>, train_step |-> ts]

\* a save that writes the step inside the epoch as train_step
CheckpointEpochStep(e, m, opt, ls, ts) ==
    [epoch |-> e, model_state_dict |-> StateDict(m),
     optimizer_state_dict |-> opt, losses |-> ls, train_step |-> step + 1]

\* a save that writes the number of the next epoch
CheckpointNextEpoch(e, m, opt, ls, ts) ==
    [epoch |-> e + 1, model_state_dict |-> StateDict(m),
     optimizer_state_dict |-> opt, losses |-> ls, train_step |-> ts]

\* save (lines 211-218): the record written to the checkpoint file
Checkpoint(e, m, opt, ls, ts) ==
    [epoch |-> e, model_state_dict |-> StateDict(m),
     optimizer_state_dict |-> opt, losses |-> ls, train_step |-> ts]

\* a resume that starts from an empty loss history
ResumeLossesFresh(ckpt) == <<>>

\* line 99
ResumeLosses(ckpt) == ckpt.losses

\* a resume that does not restore global_steps
ResumeStepsReset(ckpt) == 0

\* line 100
ResumeSteps(ckpt) == ckpt.train_step

\* a resume that takes global_steps as the batch index in every epoch
StartStepNoMod(e, g, len) == g

\* line 101
StartStep(e, g, len) == IF e = 0 THEN g ELSE g % len

\* line 101 raises ZeroDivisionError on an empty train_dataloader
StartStepRaises(e, len) == e # 0 /\ len = 0

\* loss.item() of the batch at index s of epoch e: fixed by the parameters and the data
LossItem(params, e, s) == 1 + ((params + e + s) % 3)

\* tmp_eval_loss.item() of the evaluation batch at index k
EvalLossItem(params, k) == 1 + ((params + k) % 2)

\* losses[k] = v on a dict, kept as its items in insertion order
DictSet(d, k, v) ==
    IF \E i \in 1..Len(d) : d[i][1] = k
    THEN [i \in 1..Len(d) |-> IF d[i][1] = k THEN <<k, v>> ELSE d[i]]
    ELSE Append(d, <<k, v>>)

\* str(k) of a non-negative int: its decimal digits
RECURSIVE Digits(_)
Digits(k) == IF k < 10 THEN <<k>> ELSE Digits(k \div 10) \o <<k % 10>>

\* json.dump of the dict: one member per item, the int keys turned into strings
JsonDump(d) == [i \in 1..Len(d) |-> <<Digits(d[i][1]), d[i][2]>>]

\* the file opened in append mode
WriteLogAppend(old, d) ==
    IF old = NoFile THEN JsonDump(d) ELSE Content(old) \o JsonDump(d)

\* open(..., 'w') followed by json.dump (lines 156-158)
WriteLog(old, d) == JsonDump(d)

\* a skip that takes in the batch at start_step
SkipDueInclusive(s, first) == s <= first

\* line 121
SkipDue(s, first) == s < first

\* start_step kept from one epoch to the next
StartStepKept(s) == s

\* line 163
StartStepAfterEpoch(s) == 0

\* lines 125-142: the operations of one trained batch, in program order
StepOps ==
    <<"forward", "loss", "backward", "scheduler.step", "optimizer.step", "zero_grad">>

\* lines 140-141: the scheduler has stepped when the optimizer reads the
\* learning rate, so the update is made at the next schedule position
LrAtUpdate(sched) == sched + 1

\* the test of line 145 made on the step count before its increment
LogDueBefore(g, n) == (g - 1) % n = 0

\* line 145
LogDue(g, n) == g % n = 0

\* the test of line 153 made on the step count before its increment
CkptDueBefore(g, n) == (g - 1) % n = 0

\* line 153
CkptDue(g, n) == g % n = 0

\* a wrap without the isinstance test
WrapAlways(m, gpus) ==
    IF gpus > 1 THEN [m EXCEPT !.wrapped = @ + 1] ELSE m

\* lines 170-171: wrapped counts the nn.DataParallel layers around the model
Wrap(m, gpus) ==
    IF gpus > 1 /\ m.wrapped = 0 THEN [m EXCEPT !.wrapped = @ + 1] ELSE m

\* the results file opened in write mode
WriteLine(file, line) == <<line>>

\* lines 207-209: open(..., 'a+') and write
AppendLine(file, line) == Append(file, line)

\* a mask on the padding id in place of the sentinel
LossMxPad(label) == label # 0

\* the mask of lines 128 and 190
LossMx(label) == label # IgnoreLabel

\* output[loss_mx], labels[loss_mx] (lines 129-130 and 191-192): the positions
\* of the mask, row by row
RECURSIVE Flatten(_, _)
Flatten(t, i) ==
    IF i > Len(t) THEN <<>>
    ELSE [j \in 1..Len(t[i]) |-> [pos |-> <<i, j>>, label |-> t[i][j]]]
         \o Flatten(t, i + 1)

MaskedSelect(t) == SelectSeq(Flatten(t, 1), LAMBDA x : LossMx(x.label))

(***************************************************************************)
(* Initial states.                                                         *)
(***************************************************************************)
FreshModel == [params |-> 0, wrapped |-> 0, training |-> TRUE]

\* a process that has just started the script
ProcInit ==
    /\ pc = "build"
    /\ train_len = 0 /\ eval_len = 0
    /\ model = FreshModel /\ optimizer = 0 /\ scheduler = 0
    /\ losses = <<>> /\ global_steps = 0 /\ local_steps = 0 /\ step_loss = 0
    /\ start_epoch = 0 /\ start_step = 0 /\ epoch = 0 /\ step = 0
    /\ eval_loss = 0 /\ eval_steps = 0
    /\ resumed = NoFile /\ saves = <<>> /\ trained = <<>>
    /\ logged = <<>> /\ evals = <<>> /\ skipped = <<>>
    /\ ops = <<>> /\ lr_used = <<>> /\ eval_calls = 0

FilesInit ==
    /\ ckpt_file = NoFile /\ log_file = NoFile /\ eval_file = <<>>
    /\ flushed = NoFile /\ last_save = "none" /\ interrupts = 0

NoBatch == labels = <<>> /\ selected = <<>>

\* small datasets, one example per batch
SmallSetup ==
    /\ dataset_len \in 0..MaxDatasetLen
    /\ train_test_split \in {<<10, 100>>, <<50, 100>>, <<90, 100>>}
    /\ train_batch_size = 1
    /\ ckpt_steps \in 1..MaxCkptSteps

\* the end-to-end scenario of the specification
ScenarioSetup ==
    /\ dataset_len = 100
    /\ train_test_split = <<10, 100>>
    /\ train_batch_size = 10
    /\ ckpt_steps = 9

Init ==
    /\ SmallSetup \/ ScenarioSetup
    /\ train_shuffle = TRUE /\ eval_shuffle = TRUE
    /\ epochs \in 0..MaxEpochs
    /\ log_steps \in 1..MaxLogSteps
    /\ n_gpu \in 0..MaxGpus
    /\ ProcInit /\ FilesInit /\ NoBatch

\* build_dataloaders alone, over a grid of sizes, ratios and shuffle flags
InitSplit ==
    /\ dataset_len \in 0..MaxSplitLen
    /\ train_test_split \in {<<n, 100>> : n \in 0..100}
    /\ train_shuffle \in BOOLEAN /\ eval_shuffle \in BOOLEAN
    /\ train_batch_size = 1
    /\ epochs = 0 /\ log_steps = 1 /\ ckpt_steps = 1 /\ n_gpu = 0
    /\ ProcInit /\ FilesInit /\ NoBatch

LabelValues == {IgnoreLabel, 0, 1}

\* the loss of one batch alone, over the labels tensors of a batch
InitLoss ==
    /\ labels \in UNION {[1..r -> [1..c -> LabelValues]] : r \in 1..MaxRows, c \in 1..MaxCols}
    /\ selected = <<>>
    /\ dataset_len = 0 /\ train_test_split = <<10, 100>>
    /\ train_shuffle = TRUE /\ eval_shuffle = TRUE
    /\ train_batch_size = 1
    /\ epochs = 0 /\ log_steps = 1 /\ ckpt_steps = 1 /\ n_gpu = 0
    /\ ProcInit /\ FilesInit

(***************************************************************************)
(* The script: main builds the loaders and calls train.                    *)
(***************************************************************************)
files == <<ckpt_file, log_file, eval_file, flushed, last_save>>

locals == <<losses, global_steps, local_steps, step_loss, start_epoch, start_step>>

batch == <<labels, selected>>

\* the record of what the running call of train has done
call_hist == <<logged, evals, skipped, ops, lr_used>>

\* build_dataloaders (lines 68-76)
BuildDataloaders ==
    /\ pc = "build"
    /\ eval_len' = EvalLen(dataset_len, train_test_split)
    /\ train_len' = TrainLen(dataset_len, eval_len')
    /\ pc' = "start"
    /\ UNCHANGED <<args, files, batch, model, optimizer, scheduler, locals,
                   epoch, step, eval_loss, eval_steps,
                   interrupts, resumed, saves, trained,
                   call_hist, eval_calls>>

\* train, lines 87-104: the locals, then the checkpoint if there is one
TrainStart ==
    /\ pc = "start"
    /\ local_steps' = 0 /\ step_loss' = 0
    /\ epoch' = 0 /\ step' = 0
    /\ resumed' = ckpt_file /\ saves' = <<>> /\ trained' = <<>>
    /\ IF ckpt_file = NoFile
       THEN /\ losses' = <<>> /\ global_steps' = 0
            /\ start_epoch' = 0 /\ start_step' = 0
            /\ pc' = "loaded"
            /\ UNCHANGED <<model, optimizer>>
       ELSE /\ start_epoch' = Content(ckpt_file).epoch
            /\ losses' = ResumeLosses(Content(ckpt_file))
            /\ global_steps' = ResumeSteps(Content(ckpt_file))
            /\ IF StartStepRaises(start_epoch', L)
               THEN /\ start_step' = 0
                    /\ pc' = "error"
                    /\ UNCHANGED <<model, optimizer>>
               ELSE /\ start_step' = StartStep(start_epoch', global_steps', L)
                    /\ IF KeysMatch(model, Content(ckpt_file).model_state_dict)
                       THEN /\ model' = [model EXCEPT !.params = Content(ckpt_file).model_state_dict.params]
                            /\ optimizer' = Content(ckpt_file).optimizer_state_dict
                            /\ pc' = "loaded"
                       ELSE /\ pc' = "error"
                            /\ UNCHANGED <<model, optimizer>>
    /\ logged' = <<>> /\ evals' = <<>> /\ skipped' = <<>>
    /\ ops' = <<>> /\ lr_used' = <<>>
    /\ UNCHANGED <<args, files, batch, train_len, eval_len, scheduler,
                   eval_loss, eval_steps, interrupts,
                   eval_calls>>

\* lines 106-113: model.train(), model.to(device), the first value of epoch
ModelSetting ==
    /\ pc = "loaded"
    /\ model' = [model EXCEPT !.training = TRUE]
    /\ epoch' = start_epoch
    /\ pc' = "epoch"
    /\ UNCHANGED <<args, files, batch, train_len, eval_len, optimizer, scheduler,
                   locals, step, eval_loss, eval_steps,
                   interrupts, resumed, saves, trained,
                   call_hist, eval_calls>>

\* lines 113-119: one more epoch of range(start_epoch, epochs)
EpochBegin ==
    /\ pc = "epoch" /\ epoch < epochs
    /\ step' = 0
    /\ pc' = "batch"
    /\ UNCHANGED <<args, files, batch, train_len, eval_len, model, optimizer,
                   scheduler, locals, epoch, eval_loss, eval_steps,
                   interrupts, resumed, saves, trained,
                   call_hist, eval_calls>>

\* lines 120-122
SkipBatch ==
    /\ pc = "batch" /\ step < L /\ SkipDue(step, start_step)
    /\ step' = step + 1
    /\ skipped' = Append(skipped, <<epoch, step>>)
    /\ UNCHANGED <<args, files, batch, train_len, eval_len, pc, model, optimizer,
                   scheduler, locals, epoch, eval_loss, eval_steps,
                   interrupts, resumed, saves, trained,
                   logged, evals, ops, lr_used, eval_calls>>

\* lines 123-153: one training step, its log event and the test of line 153
TrainStep ==
    /\ pc = "batch" /\ step < L /\ ~SkipDue(step, start_step)
    /\ LET loss == LossItem(model.params, epoch, step)
           logs == LogDue(global_steps + 1, log_steps)
       IN /\ losses' = DictSet(losses, global_steps, loss)
          /\ global_steps' = global_steps + 1
          /\ step_loss' = IF logs THEN 0 ELSE step_loss + loss
          /\ local_steps' = IF logs THEN 0 ELSE local_steps + 1
          /\ logged' = IF logs
                        THEN Append(logged, [steps |-> global_steps + 1,
                                             sum |-> step_loss + loss,
                                             count |-> local_steps + 1])
                        ELSE logged
    /\ ops' = StepOps
    /\ lr_used' = Append(lr_used, LrAtUpdate(scheduler))
    /\ scheduler' = scheduler + 1
    /\ optimizer' = optimizer + 1
    /\ model' = [model EXCEPT !.params = @ + 1]
    /\ trained' = Append(trained, <<epoch, step>>)
    /\ IF CkptDue(global_steps', ckpt_steps)
       THEN pc' = "ckpt" /\ step' = step
       ELSE pc' = "batch" /\ step' = step + 1
    /\ UNCHANGED <<args, files, batch, train_len, eval_len, start_epoch, start_step,
                   epoch, eval_loss, eval_steps, interrupts, resumed, saves,
                   evals, skipped, eval_calls>>

\* lines 154-155: the in-loop save
SaveCheckpoint ==
    /\ pc = "ckpt"
    /\ ckpt_file' = File(Checkpoint(epoch, model, optimizer, losses, global_steps))
    /\ saves' = Append(saves, [kind |-> "loop", epoch |-> epoch, step |-> step,
                               train_step |-> Content(ckpt_file').train_step])
    /\ last_save' = "loop"
    /\ pc' = "flush"
    /\ UNCHANGED <<args, log_file, eval_file, flushed, batch, train_len, eval_len,
                   model, optimizer, scheduler, locals, epoch, step,
                   eval_loss, eval_steps, interrupts, resumed, trained,
                   call_hist, eval_calls>>

\* lines 156-158: the loss history file
FlushLosses ==
    /\ pc = "flush"
    /\ log_file' = File(WriteLog(log_file, losses))
    /\ flushed' = File(losses)
    /\ last_save' = "flushed"
    /\ step' = step + 1
    /\ pc' = "batch"
    /\ UNCHANGED <<args, ckpt_file, eval_file, batch, train_len, eval_len,
                   model, optimizer, scheduler, locals, epoch,
                   eval_loss, eval_steps, interrupts, resumed, saves, trained,
                   call_hist, eval_calls>>

\* lines 160-161 and 167-178: the call of evaluate up to its loop
EvaluateBegin ==
    /\ pc = "batch" /\ step = L
    /\ model' = [Wrap(model, n_gpu) EXCEPT !.training = FALSE]
    /\ eval_loss' = 0 /\ eval_steps' = 0
    /\ pc' = "eval"
    /\ evals' = Append(evals, [epoch |-> epoch, after |-> Len(trained)])
    /\ eval_calls' = eval_calls + 1
    /\ UNCHANGED <<args, files, batch, train_len, eval_len, optimizer, scheduler,
                   locals, epoch, step, interrupts, resumed, saves, trained,
                   logged, skipped, ops, lr_used>>

\* lines 179-209: one evaluation batch and its line of the results file
EvalBatch ==
    /\ pc = "eval" /\ eval_steps < EL
    /\ eval_loss' = eval_loss + EvalLossItem(model.params, eval_steps)
    /\ eval_steps' = eval_steps + 1
    /\ eval_file' = AppendLine(eval_file, [step |-> eval_steps, sum |-> eval_loss',
                                           count |-> eval_steps'])
    /\ UNCHANGED <<args, ckpt_file, log_file, flushed, last_save, batch,
                   train_len, eval_len, pc, model, optimizer, scheduler,
                   locals, epoch, step, interrupts, resumed, saves, trained,
                   call_hist, eval_calls>>

\* lines 162-163 and the next value of epoch
EpochEnd ==
    /\ pc = "eval" /\ eval_steps = EL
    /\ model' = [model EXCEPT !.training = TRUE]
    /\ start_step' = StartStepAfterEpoch(start_step)
    /\ epoch' = epoch + 1
    /\ pc' = "epoch"
    /\ UNCHANGED <<args, files, batch, train_len, eval_len, optimizer, scheduler,
                   losses, global_steps, local_steps, step_loss, start_epoch,
                   step, eval_loss, eval_steps, interrupts, resumed, saves, trained,
                   call_hist, eval_calls>>

\* lines 164-165: the save after the last epoch
FinalSave ==
    /\ pc = "epoch" /\ ~(epoch < epochs)
    /\ ckpt_file' = File(Checkpoint(epochs, model, optimizer, losses, global_steps))
    /\ saves' = Append(saves, [kind |-> "final", epoch |-> epochs, step |-> step,
                               train_step |-> Content(ckpt_file').train_step])
    /\ last_save' = "final"
    /\ pc' = "done"
    /\ UNCHANGED <<args, log_file, eval_file, flushed, batch, train_len, eval_len,
                   model, optimizer, scheduler, locals, epoch, step,
                   eval_loss, eval_steps, interrupts, resumed, trained,
                   call_hist, eval_calls>>

\* a new process runs the script: nothing but the files survives
NewProcess ==
    /\ pc' = "build"
    /\ train_len' = 0 /\ eval_len' = 0
    /\ model' = FreshModel /\ optimizer' = 0 /\ scheduler' = 0
    /\ losses' = <<>> /\ global_steps' = 0 /\ local_steps' = 0 /\ step_loss' = 0
    /\ start_epoch' = 0 /\ start_step' = 0 /\ epoch' = 0 /\ step' = 0
    /\ eval_loss' = 0 /\ eval_steps' = 0
    /\ resumed' = NoFile /\ saves' = <<>> /\ trained' = <<>>
    /\ logged' = <<>> /\ evals' = <<>> /\ skipped' = <<>>
    /\ ops' = <<>> /\ lr_used' = <<>> /\ eval_calls' = 0
    /\ UNCHANGED <<args, files, batch>>

Running == {"loaded", "epoch", "batch", "ckpt", "flush", "eval"}

\* the process is killed inside train and the script is started again
Interrupt ==
    /\ pc \in Running
    /\ interrupts < MaxInterrupts
    /\ interrupts' = interrupts + 1
    /\ NewProcess

\* the script is started again after train has returned or raised
Rerun ==
    /\ pc \in {"done", "error"}
    /\ UNCHANGED interrupts
    /\ NewProcess

\* train is called again on the same trainer, optimizer and scheduler
TrainAgain ==
    /\ pc = "done"
    /\ pc' = "start"
    /\ UNCHANGED <<args, files, batch, train_len, eval_len, model, optimizer,
                   scheduler, locals, epoch, step, eval_loss, eval_steps,
                   interrupts, resumed, saves, trained,
                   call_hist, eval_calls>>

\* one uninterrupted run of the script
Run ==
    \/ BuildDataloaders
    \/ TrainStart
    \/ ModelSetting
    \/ EpochBegin
    \/ SkipBatch
    \/ TrainStep
    \/ SaveCheckpoint
    \/ FlushLosses
    \/ EvaluateBegin
    \/ EvalBatch
    \/ EpochEnd
    \/ FinalSave

Next ==
    \/ Run
    \/ Interrupt
    \/ Rerun
    \/ TrainAgain

Spec == Init /\ [][Next]_vars

SplitNext == BuildDataloaders

SpecSplit == InitSplit /\ [][SplitNext]_vars

\* lines 127-132: the loss of a training batch
TrainLoss ==
    /\ pc = "build"
    /\ selected' = MaskedSelect(labels)
    /\ pc' = "train_loss"
    /\ UNCHANGED <<args, files, labels, train_len, eval_len, model, optimizer,
                   scheduler, locals, epoch, step, eval_loss, eval_steps,
                   interrupts, resumed, saves, trained,
                   call_hist, eval_calls>>

\* lines 190-193: the loss of an evaluation batch
EvalLoss ==
    /\ pc = "build"
    /\ selected' = MaskedSelect(labels)
    /\ pc' = "eval_loss"
    /\ UNCHANGED <<args, files, labels, train_len, eval_len, model, optimizer,
                   scheduler, locals, epoch, step, eval_loss, eval_steps,
                   interrupts, resumed, saves, trained,
                   call_hist, eval_calls>>

LossNext ==
    \/ TrainLoss
    \/ EvalLoss

SpecLoss == InitLoss /\ [][LossNext]_vars

(***************************************************************************)
(* Properties.                                                             *)
(***************************************************************************)
\* the checkpoint found by the running call of train
Found == Content(resumed)

\* the checkpoint in the file
Saved == Content(ckpt_file)

LoopSaves(e) == {i \in DOMAIN saves : saves[i].kind = "loop" /\ saves[i].epoch = e}

IsPrefix(s, t) == Len(s) <= Len(t) /\ SubSeq(t, 1, Len(s)) = s

\* C1: a run from no checkpoint that is interrupted once and started again
\* ends, like an uninterrupted run, with global_steps = epochs * L, which is
\* also the train_step of the final checkpoint.
C1_StepIdempotent ==
    (pc = "done" /\ interrupts <= 1) =>
        /\ global_steps = epochs * L
        /\ Saved.train_step = epochs * L

\* C2 as stated: a call of train that finds the checkpoint {epoch e,
\* train_step g} sets start_epoch = e and start_step = g mod L, and the first
\* batch it trains is batch g mod L of epoch e.
C2_StartStepMod ==
    /\ (pc = "loaded" /\ resumed # NoFile /\ L > 0) =>
          /\ start_epoch = Found.epoch
          /\ start_step = Found.train_step % L
    /\ (pc \in Running /\ resumed # NoFile /\ trained # <<>> /\ L > 0) =>
          trained[1] = <<Found.epoch, Found.train_step % L>>

\* where the training of a call of train that found {epoch e, train_step g} starts
ResumePoint(e, g) == IF e = 0 /\ g = L THEN <<1, 0>> ELSE <<e, g % L>>

\* C2 amended: start_epoch = e, and start_step = g mod L except for the
\* checkpoint saved after the last batch of epoch 0 (e = 0, g = L), where
\* start_step = L: every batch of epoch 0 is skipped and the first batch
\* trained is batch 0 of epoch 1.
C2_StartStep ==
    /\ (pc = "loaded" /\ resumed # NoFile /\ L > 0) =>
          /\ start_epoch = Found.epoch
          /\ start_step = IF Found.epoch = 0 /\ Found.train_step = L
                          THEN L ELSE Found.train_step % L
    /\ (pc \in Running /\ resumed # NoFile /\ trained # <<>> /\ L > 0) =>
          trained[1] = ResumePoint(Found.epoch, Found.train_step)

C2_Witness ==
    /\ pc \in Running /\ resumed # NoFile /\ L > 0
    /\ Found.epoch = 0 /\ Found.train_step = L
    /\ trained # <<>>

\* C3: the load at the start of train (over a train loader that is not empty)
\* succeeds, and after it epoch, train_step and loss history are those of
\* the checkpoint file and the model and the optimizer are in the state they
\* were saved in.
C3_RoundTrip ==
    (pc \in {"loaded", "error"} /\ resumed # NoFile /\ L > 0) =>
        /\ pc = "loaded"
        /\ start_epoch = Found.epoch
        /\ global_steps = Found.train_step
        /\ losses = Found.losses
        /\ model.params = Found.model_state_dict.params
        /\ optimizer = Found.optimizer_state_dict

\* floor(T * r) of the ratio r = n/d
FloorOfProduct(t, r) == (t * r[1]) \div r[2]

\* C4 as stated: eval_len = floor(T * r), train_len = T - eval_len and the
\* two add up to T.
C4_FloorSplit ==
    pc = "start" =>
        /\ eval_len = FloorOfProduct(dataset_len, train_test_split)
        /\ train_len = dataset_len - eval_len
        /\ train_len + eval_len = dataset_len

\* C4 amended: eval_len is the integer part of the float product T * r: it is
\* floor(T * r), or one less where T * r is an integer that the float product
\* falls short of; train_len = T - eval_len, both are within 0..T and add up
\* to T, whatever the shuffle flags.
C4_SplitSizes ==
    pc = "start" =>
        LET fl == FloorOfProduct(dataset_len, train_test_split)
            whole == (dataset_len * train_test_split[1]) % train_test_split[2] = 0
        IN /\ eval_len \in {fl - 1, fl}
           /\ ~whole => eval_len = fl
           /\ eval_len \in 0..dataset_len
           /\ train_len = dataset_len - eval_len
           /\ train_len + eval_len = dataset_len

C4_Witness ==
    /\ pc = "start"
    /\ eval_len = FloorOfProduct(dataset_len, train_test_split) - 1
    /\ train_len + eval_len = dataset_len
    /\ ~train_shuffle

\* the in-loop save of epoch e has been made
EpochSaved(e) ==
    \/ e < epoch
    \/ e = epoch /\ (pc \in {"flush", "eval"} \/ (pc = "batch" /\ step = L))

InTrain == Running \cup {"done"}

\* C5: in an uninterrupted run from no checkpoint with ckpt_steps = L, every
\* in-loop save follows the last batch of its epoch and every epoch has
\* exactly one; 100 examples, ratio 0.1 and batch size 10 give 90 training
\* examples, 10 evaluation examples and L = 9.
C5_OnePerEpoch ==
    /\ (pc \in InTrain /\ resumed = NoFile /\ L >= 1 /\ ckpt_steps = L) =>
          /\ \A i \in DOMAIN saves :
                saves[i].kind = "loop" => saves[i].step = L - 1
          /\ \A e \in 0..(epochs - 1) :
                Cardinality(LoopSaves(e)) = IF EpochSaved(e) THEN 1 ELSE 0
    /\ (pc # "build" /\ dataset_len = 100 /\ train_test_split = <<10, 100>>
        /\ train_batch_size = 10) =>
          train_len = 90 /\ eval_len = 10 /\ L = 9

C5_Witness ==
    /\ pc = "done" /\ resumed = NoFile
    /\ dataset_len = 100 /\ L = 9 /\ ckpt_steps = 9
    /\ epochs = 2
    /\ Cardinality(LoopSaves(0)) = 1 /\ Cardinality(LoopSaves(1)) = 1
    /\ saves[2].step = 8

\* the loss history in the file; none while the file is absent
LogHistory == IF log_file = NoFile THEN <<>> ELSE Content(log_file)

\* C6 as stated: after every save, in-loop or final, the loss history file
\* holds the loss history of the checkpoint.
C6_EverySaveFlushed ==
    last_save \in {"flushed", "final"} => LogHistory = JsonDump(Saved.losses)

\* C6 amended: once the flush that follows an in-loop save is written, the
\* loss history file holds the loss history of the checkpoint; the final save
\* writes no flush, so when train returns the file, if there is one, holds a
\* prefix of the checkpoint's loss history.
C6_LoopSaveFlushed ==
    /\ last_save = "flushed" =>
          /\ log_file # NoFile
          /\ Content(log_file) = JsonDump(Saved.losses)
    /\ (last_save = "final" /\ log_file # NoFile) =>
          IsPrefix(Content(log_file), JsonDump(Saved.losses))

C6_Witness ==
    /\ last_save = "flushed" /\ pc = "batch"
    /\ Len(Saved.losses) >= 2
    /\ Content(log_file) = JsonDump(Saved.losses)

\* C7: the loss history file holds one member per step of the in-memory loss
\* history of the latest flush, under that step's key, no key twice and
\* nothing of an earlier flush.
C7_LogOverwritten ==
    log_file # NoFile =>
        LET f == Content(log_file)
            h == Content(flushed)
        IN /\ Len(f) = Len(h)
           /\ \A i \in DOMAIN h : f[i] = <<Digits(h[i][1]), h[i][2]>>
           /\ \A i, j \in DOMAIN f : i # j => f[i][1] # f[j][1]

C7_Witness ==
    /\ last_save = "flushed"
    /\ Len(saves) >= 2
    /\ saves[Len(saves)].kind = "loop" /\ saves[Len(saves) - 1].kind = "loop"
    /\ Len(Content(log_file)) = Len(losses)

\* C8: the train_step values of the saves of one call of train never
\* decrease, and none is below the train_step of the checkpoint the call
\* found.
C8_TrainStepMonotonic ==
    /\ \A i, j \in DOMAIN saves :
          i < j => saves[i].train_step <= saves[j].train_step
    /\ resumed # NoFile =>
          \A i \in DOMAIN saves : saves[i].train_step >= Found.train_step

C8_Witness ==
    /\ resumed # NoFile /\ Found.train_step > 0
    /\ Len(saves) >= 2
    /\ saves[Len(saves)].kind = "final"

\* C9: without a checkpoint file train does not raise and starts from
\* start_epoch = 0, start_step = 0, global_steps = 0 and an empty loss
\* history, and the first batch it trains is batch 0 of epoch 0; with a
\* checkpoint file, epoch, global step and loss history are the file's.
C9_FreshStart ==
    /\ (pc = "loaded" /\ resumed = NoFile) =>
          /\ start_epoch = 0 /\ start_step = 0 /\ global_steps = 0
          /\ losses = <<>>
    /\ (pc \in InTrain /\ resumed = NoFile /\ trained # <<>>) =>
          trained[1] = <<0, 0>>
    /\ pc = "error" => resumed # NoFile
    /\ (pc = "loaded" /\ resumed # NoFile) =>
          /\ start_epoch = Found.epoch
          /\ global_steps = Found.train_step
          /\ losses = Found.losses

C9_Witness ==
    /\ pc = "batch" /\ resumed = NoFile /\ ckpt_file = NoFile
    /\ trained = <<<<0, 0>>>>
    /\ global_steps = 1

\* C10: in train and in evaluate the loss is computed over exactly the
\* positions whose label is not -100, each with its own label and once; a
\* batch whose labels are all -100 selects nothing.
C10_MaskedPositions ==
    pc \in {"train_loss", "eval_loss"} =>
        /\ \A i \in DOMAIN labels : \A j \in DOMAIN labels[i] :
              (\E k \in DOMAIN selected : selected[k].pos = <<i, j>>)
                  <=> labels[i][j] # IgnoreLabel
        /\ \A k \in DOMAIN selected :
              /\ selected[k].pos[1] \in DOMAIN labels
              /\ selected[k].pos[2] \in DOMAIN labels[selected[k].pos[1]]
              /\ selected[k].label = labels[selected[k].pos[1]][selected[k].pos[2]]
        /\ \A k, m \in DOMAIN selected : k # m => selected[k].pos # selected[m].pos
        /\ (\A i \in DOMAIN labels : \A j \in DOMAIN labels[i] :
               labels[i][j] = IgnoreLabel) => selected = <<>>

C10_Witness ==
    /\ pc = "eval_loss"
    /\ Len(selected) >= 1
    /\ \E i \in DOMAIN labels : \E j \in DOMAIN labels[i] : labels[i][j] = IgnoreLabel

\* the value of global_steps the running call of train started from
StartSteps == IF resumed = NoFile THEN 0 ELSE Found.train_step

AllLoopSaves == {i \in DOMAIN saves : saves[i].kind = "loop"}

\* the step counts of the running call after which the in-loop save is due,
\* but for the one whose save is still to be written
SavesDue ==
    {g \in (StartSteps + 1)..global_steps : g % ckpt_steps = 0}
        \ (IF pc = "ckpt" THEN {global_steps} ELSE {})

\* C11: inside the loop a checkpoint is saved right after a training step
\* exactly when the updated global_steps is a multiple of ckpt_steps, once, and
\* never otherwise; its train_step is global_steps and its epoch the epoch in
\* progress; when train returns one final checkpoint has been saved, the last
\* save, with epoch = epochs and train_step = the final global_steps.
C11_SaveMoments ==
    /\ pc \in InTrain =>
          /\ {saves[i].train_step : i \in AllLoopSaves} = SavesDue
          /\ Cardinality(AllLoopSaves) = Cardinality(SavesDue)
          /\ \A i \in AllLoopSaves :
                saves[i].epoch = trained[saves[i].train_step - StartSteps][1]
          /\ \A i \in DOMAIN saves :
                saves[i].kind = "final" => pc = "done" /\ i = Len(saves)
    /\ pc = "ckpt" => global_steps % ckpt_steps = 0
    /\ pc = "flush" =>
          /\ Saved.train_step = global_steps /\ Saved.epoch = epoch
          /\ saves[Len(saves)].kind = "loop"
          /\ saves[Len(saves)].train_step = global_steps
    /\ pc = "done" =>
          /\ saves # <<>> /\ saves[Len(saves)].kind = "final"
          /\ Saved.epoch = epochs /\ Saved.train_step = global_steps

C11_Witness ==
    /\ pc = "done" /\ Len(saves) = 2
    /\ saves[1].kind = "loop" /\ saves[1].epoch = 1
    /\ global_steps % ckpt_steps # 0
    /\ Len(trained) > ckpt_steps

\* the sum of the values of the items lo..hi of a loss history
RECURSIVE SumItems(_, _, _)
SumItems(d, lo, hi) == IF lo > hi THEN 0 ELSE d[lo][2] + SumItems(d, lo + 1, hi)

\* the step counts of the running call after which a log event is due
LogsDue == {g \in (StartSteps + 1)..global_steps : g % log_steps = 0}

\* C12: the log events of a call of train follow exactly the steps whose
\* updated global_steps is a multiple of log_steps; each emits the sum of the
\* losses of the local_steps >= 1 steps since the previous event (or the start
\* of the call) over local_steps; right after an event the running sum and
\* local_steps are 0; in a call that found no checkpoint local_steps is
\* log_steps at every event.
C12_LogEvents ==
    pc \in InTrain =>
        /\ {logged[i].steps : i \in DOMAIN logged} = LogsDue
        /\ Len(logged) = Cardinality(LogsDue)
        /\ \A i \in DOMAIN logged :
              /\ logged[i].count >= 1
              /\ logged[i].count =
                    logged[i].steps - (IF i = 1 THEN StartSteps ELSE logged[i - 1].steps)
              /\ logged[i].sum =
                    SumItems(losses, logged[i].steps - logged[i].count + 1, logged[i].steps)
        /\ (trained # <<>> /\ global_steps % log_steps = 0) =>
              step_loss = 0 /\ local_steps = 0
        /\ resumed = NoFile =>
              \A i \in DOMAIN logged : logged[i].count = log_steps

C12_Witness ==
    /\ pc = "batch" /\ resumed = NoFile
    /\ log_steps = 2 /\ Len(logged) = 2
    /\ logged[2].steps = 4 /\ logged[2].count = 2
    /\ step_loss = 0 /\ local_steps = 0

EvalsOf(e) == {i \in DOMAIN evals : evals[i].epoch = e}

\* the call of evaluate that follows epoch e has been made
Evaluated(e) == e < epoch \/ (e = epoch /\ pc = "eval")

\* C13: a call of train calls evaluate once for every epoch from start_epoch
\* to epochs - 1 and for no other, after the batches of that epoch and before
\* those of the next and before the final save; no batch is trained during an
\* evaluation pass; start_step is 0 from the end of the first epoch of the
\* call on.
C13_EvaluateOnce ==
    pc \in InTrain =>
        /\ \A e \in 0..(MaxEpochs + 1) :
              Cardinality(EvalsOf(e)) =
                  IF e \in start_epoch..(epochs - 1) /\ pc # "loaded" /\ Evaluated(e)
                  THEN 1 ELSE 0
        /\ \A i \in DOMAIN evals : evals[i].epoch \in 0..(MaxEpochs + 1)
        /\ \A i \in DOMAIN evals : \A k \in DOMAIN trained :
              trained[k][1] <= evals[i].epoch <=> k <= evals[i].after
        /\ pc = "eval" =>
              /\ evals # <<>>
              /\ evals[Len(evals)].epoch = epoch
              /\ evals[Len(evals)].after = Len(trained)
              /\ \A i \in DOMAIN saves : saves[i].kind # "final"
        /\ (Len(evals) >= 2 \/ (Len(evals) = 1 /\ pc # "eval")) => start_step = 0

C13_Witness ==
    /\ pc = "done" /\ resumed # NoFile
    /\ Found.epoch = 0 /\ Found.train_step = 1 /\ L = 2
    /\ Len(evals) = 2 /\ evals[1].after = 1 /\ evals[2].after = 3
    /\ Len(skipped) = 1

\* the value of start_step the running call of train started with
FirstStep ==
    IF resumed = NoFile THEN 0 ELSE StartStep(Found.epoch, Found.train_step, L)

\* the loop of the running call has passed batch s of epoch e
Passed(e, s) ==
    /\ e \in start_epoch..(epochs - 1) /\ s \in 0..(L - 1) /\ pc # "loaded"
    /\ \/ e < epoch
       \/ /\ e = epoch
          /\ \/ pc = "eval"
             \/ pc = "batch" /\ s < step
             \/ pc \in {"ckpt", "flush"} /\ s <= step

Count(seq, x) == Cardinality({i \in DOMAIN seq : seq[i] = x})

\* batch s of epoch e is one the resume skips
ToSkip(e, s) == e = start_epoch /\ s < FirstStep

\* what a skipped batch leaves alone
SkipFrame ==
    <<global_steps, local_steps, step_loss, losses, model, optimizer, scheduler,
      logged, saves, trained, ckpt_file, log_file, eval_file>>

\* C14: a call of train that found no checkpoint skips nothing; a resumed one
\* skips, once each, exactly the batches with index < start_step of the first
\* epoch it executes and trains, once each, every other batch it passes, so
\* all L batches of every later epoch; a skip changes none of global_steps,
\* local_steps, the running loss sum, the loss history, the model, the
\* optimizer, the scheduler, and writes no log event, checkpoint or file.
C14_SkipOnlyResumed ==
    /\ [](pc \in InTrain =>
            /\ resumed = NoFile => skipped = <<>>
            /\ \A e \in 0..MaxEpochs : \A s \in 0..(L - 1) :
                  /\ Count(skipped, <<e, s>>) =
                        IF Passed(e, s) /\ ToSkip(e, s) THEN 1 ELSE 0
                  /\ Count(trained, <<e, s>>) =
                        IF Passed(e, s) /\ ~ToSkip(e, s) THEN 1 ELSE 0
            /\ \A i \in DOMAIN skipped :
                  skipped[i][1] \in 0..MaxEpochs /\ skipped[i][2] \in 0..(L - 1)
            /\ \A i \in DOMAIN trained :
                  trained[i][1] \in 0..MaxEpochs /\ trained[i][2] \in 0..(L - 1))
    /\ [][Len(skipped') > Len(skipped) => UNCHANGED SkipFrame]_vars

C14_Witness ==
    /\ pc = "done" /\ resumed # NoFile /\ epochs = 2
    /\ start_epoch = 0 /\ L = 3 /\ FirstStep = 2
    /\ skipped = <<<<0, 0>>, <<0, 1>>>>
    /\ trained = <<<<0, 2>>, <<1, 0>>, <<1, 1>>, <<1, 2>>>>

\* the order of operations of a trained batch in the specification
StatedOps ==
    <<"forward", "loss", "backward", "optimizer.step", "scheduler.step", "zero_grad">>

\* C15: every trained batch runs forward pass, loss, backward pass, optimizer
\* step, scheduler step and zero gradients, once each and in this order, so
\* the k-th optimizer update of a call is made at the schedule position the
\* scheduler had after k - 1 of its steps; global_steps grows by one per
\* trained batch.
C15_StepOrder ==
    (pc \in InTrain /\ trained # <<>>) =>
        /\ ops = StatedOps
        /\ Len(lr_used) = Len(trained)
        /\ \A k \in DOMAIN lr_used :
              lr_used[k] = (scheduler - Len(trained)) + (k - 1)
        /\ global_steps = StartSteps + Len(trained)

\* the sum of the losses of the evaluation batches 0..k
RECURSIVE EvalLossSum(_, _)
EvalLossSum(p, k) == IF k < 0 THEN 0 ELSE EvalLossItem(p, k) + EvalLossSum(p, k - 1)

\* C16: every step leaves the lines already in the evaluation results file
\* as they are, in place, and adds one line exactly when it is an evaluation
\* batch; the lines of the pass in progress are the last ones of the file, and
\* the line of batch k has step k and the mean of the losses of batches 0..k
\* (their sum over k + 1).
C16_EvalAppendOnly ==
    /\ [][/\ IsPrefix(eval_file, eval_file')
          /\ Len(eval_file') - Len(eval_file) =
                IF eval_steps' = eval_steps + 1 THEN 1 ELSE 0]_vars
    /\ [](pc = "eval" =>
            /\ Len(eval_file) >= eval_steps
            /\ \A k \in 0..(eval_steps - 1) :
                  eval_file[Len(eval_file) - eval_steps + k + 1] =
                      [step |-> k, sum |-> EvalLossSum(model.params, k),
                       count |-> k + 1])

C16_Witness ==
    /\ pc = "eval" /\ eval_steps = 2 /\ EL = 2
    /\ Len(eval_file) = 4 /\ interrupts = 1
    /\ eval_file[4].step = 1 /\ eval_file[4].count = 2
    /\ eval_file[2].step = 1

\* C17: the model is inside as many data-parallel wrappers as the claim
\* allows: one once evaluate has been called on this trainer with more than
\* one device, whatever the number of calls, and none before the first call or
\* with at most one device; a call of evaluate other than the first never adds
\* a wrapper.
C17_WrappedOnce ==
    /\ [](model.wrapped = IF n_gpu > 1 /\ eval_calls >= 1 THEN 1 ELSE 0)
    /\ [][(eval_calls' = eval_calls + 1 /\ eval_calls >= 1) =>
              model'.wrapped = model.wrapped]_vars

C17_Witness ==
    /\ n_gpu = 2 /\ eval_calls = 2 /\ pc = "eval"
    /\ model.wrapped = 1

\* the keys of the loss history d are 0 .. n - 1, each once
KeysUpTo(d, n) == Len(d) = n /\ \A i \in DOMAIN d : d[i][1] = i - 1

\* C18: in a call of train, fresh or resumed, the loss history has exactly
\* the keys 0 .. global_steps - 1 after every step, and a step adds its entry
\* without changing an earlier one; every checkpoint in the file has as many
\* loss entries as its train_step, under the keys 0 .. train_step - 1.
C18_LossKeys ==
    /\ [](pc \in InTrain => KeysUpTo(losses, global_steps))
    /\ [](ckpt_file # NoFile => KeysUpTo(Saved.losses, Saved.train_step))
    /\ [][(pc \in Running /\ pc' \in InTrain) => IsPrefix(losses, losses')]_vars

C18_Witness ==
    /\ pc = "flush" /\ resumed # NoFile
    /\ Found.train_step = 2 /\ global_steps = 4
    /\ Len(Saved.losses) = 4 /\ Saved.losses[4][1] = 3

\* C19: a call of train that finds the final checkpoint of a completed run
\* (epoch = epochs), over a train loader that is not empty, returns after
\* no training step and no evaluation pass, having written one checkpoint
\* with the epoch, train_step and loss history of the checkpoint it found.
C19_TrainAgainNoOp ==
    (pc \in {"done", "error"} /\ resumed # NoFile /\ Found.epoch = epochs /\ L > 0) =>
        /\ pc = "done"
        /\ trained = <<>> /\ evals = <<>>
        /\ Len(saves) = 1 /\ saves[1].kind = "final"
        /\ Saved.epoch = Found.epoch
        /\ Saved.train_step = Found.train_step
        /\ Saved.losses = Found.losses

\* C20: after every training step of a call of train, fresh or resumed, the
\* scheduler has taken as many steps as global_steps counts.
C20_SchedulerInStep ==
    (pc \in InTrain /\ trained # <<>>) => scheduler = global_steps

====
